---- MODULE Spec2Model ----
(***************************************************************************)
(* Model of s2cloudless.py: the join of the Sentinel-2 surface-reflectance *)
(* collection with the cloud-probability collection (S2CloudCollection),   *)
(* the four masking stages of S2CloudlessBuilder, S2CloudlessDirector and  *)
(* build_s2_cloudless.                                                     *)
(*                                                                         *)
(* A raster is one row of Width pixels running west to east, at the scale  *)
(* each stage works at; a band is a function from pixel to value.  Band    *)
(* names are sequences of characters so that the selector 'B.*' is         *)
(* computed on the name.  An optional Python value is a sequence: <<>> is  *)
(* None (or an attribute that was never assigned), <<v>> is the value v.   *)
(* An Earth Engine error of a mapped function is raised where the stage is *)
(* called.                                                                 *)
(***************************************************************************)
EXTENDS Integers, Sequences, FiniteSets, TLC

(* ---------------------------- bounds ----------------------------------- *)
Width == 4
MaxIndex == 2
MaxCalls == 4

Pixels == 0 .. (Width - 1)
Indices == 1 .. MaxIndex

(* ------------------------- band names ---------------------------------- *)
B8 == <<"B", "8">>
SCL == <<"S", "C", "L">>
probability == <<"p", "r", "o", "b", "a", "b", "i", "l", "i", "t", "y">>
clouds == <<"c", "l", "o", "u", "d", "s">>
dark_pixels == <<"d", "a", "r", "k", "_", "p", "i", "x", "e", "l", "s">>
cloud_transform == <<"c", "l", "o", "u", "d", "_", "t", "r", "a", "n", "s", "f", "o", "r", "m">>
shadows == <<"s", "h", "a", "d", "o", "w", "s">>
cloudmask == <<"c", "l", "o", "u", "d", "m", "a", "s", "k">>

DerivedBands == {probability, clouds, dark_pixels, cloud_transform, shadows, cloudmask}

(* ---------------- raster primitives of the engine ---------------------- *)
Digit(k) == CASE k = 1 -> "1" [] k = 2 -> "2" [] k = 3 -> "3" [] k = 4 -> "4"
              [] k = 5 -> "5" [] k = 6 -> "6" [] k = 7 -> "7" [] k = 8 -> "8"
              [] OTHER -> "9"

Suffixed(name, k) == name \o <<"_", Digit(k)>>

\* addBands with overwrite = false: a band whose name is taken is renamed
\* name_1, or name_2 when name_1 is taken, and so on.
FreshName(bands, name) ==
    IF name \notin DOMAIN bands THEN name
    ELSE Suffixed(name, CHOOSE k \in 1 .. 9 :
                      /\ Suffixed(name, k) \notin DOMAIN bands
                      /\ \A j \in 1 .. (k - 1) : Suffixed(name, j) \in DOMAIN bands)

addBand(bands, name, data) == (FreshName(bands, name) :> data) @@ bands

addBands(img, names, datas) ==
    LET RECURSIVE Add(_, _)
        Add(bands, k) == IF k > Len(names) THEN bands
                         ELSE Add(addBand(bands, names[k], datas[k]), k + 1)
    IN  [img EXCEPT !.bands = Add(img.bands, 1)]

\* Faulty variant: the selector '.*'
MatchesAny(name) == Len(name) >= 0

\* Image.select with the regular expression 'B.*'
MatchesBStar(name) == Len(name) >= 1 /\ name[1] = "B"

\* Faulty variant: greater than or equal
gte(band, v) == [p \in Pixels |-> IF band[p] >= v THEN 1 ELSE 0]

gt(band, v) == [p \in Pixels |-> IF band[p] > v THEN 1 ELSE 0]

\* Faulty variant: less than or equal
lte(band, v) == [p \in Pixels |-> IF band[p] <= v THEN 1 ELSE 0]

lt(band, v) == [p \in Pixels |-> IF band[p] < v THEN 1 ELSE 0]
neq(band, v) == [p \in Pixels |-> IF band[p] # v THEN 1 ELSE 0]
multiply(a, b) == [p \in Pixels |-> a[p] * b[p]]
add(a, b) == [p \in Pixels |-> a[p] + b[p]]

\* Faulty variant: the mask is not inverted
NotInverted(band) == [p \in Pixels |-> IF band[p] = 0 THEN 0 ELSE 1]

Not(band) == [p \in Pixels |-> IF band[p] = 0 THEN 1 ELSE 0]

\* Circular kernel of the given radius, in tenths of a pixel.
InKernel(p, q, radius10) ==
    LET d == IF p >= q THEN p - q ELSE q - p IN 10 * d <= radius10

NonZero(band) == {q \in Pixels : band[q] # 0}

focalMin(band, radius10) ==
    LET nz == NonZero(band)
    IN  [p \in Pixels |-> IF \A q \in Pixels : InKernel(p, q, radius10) => q \in nz
                          THEN 1 ELSE 0]

focalMax(band, radius10) ==
    LET nz == NonZero(band)
    IN  [p \in Pixels |-> IF \E q \in nz : InKernel(p, q, radius10) THEN 1 ELSE 0]

\* The step of one pixel along a search angle (degrees, counter-clockwise
\* from east) on the west-east row.
Step(angle) == IF (angle % 360) = 0 THEN 1 ELSE -1

\* directionalDistanceTransform(angle, maxDistance).select('distance').mask():
\* 1 at a zero-valued pixel that has a non-zero pixel within maxDistance
\* pixels in the direction of the angle.
distanceMask(band, angle, maxDistance) ==
    LET nz == NonZero(band)
    IN  [p \in Pixels |->
            IF /\ p \notin nz
               /\ \E k \in 1 .. maxDistance : p + k * Step(angle) \in nz
            THEN 1 ELSE 0]

(* ---------------------- program constants ------------------------------ *)
SR_BAND_SCALE == 10000
WATER == 6
FOCAL_MIN_RADIUS == 2

(* ------------------------- S2CloudCollection --------------------------- *)
\* Faulty variant: an outer join, which keeps the primary images without a match
RECURSIVE _join_outer(_, _)
_join_outer(primary, secondary) ==
    IF primary = <<>> THEN <<>>
    ELSE LET img == Head(primary)
             matches == SelectSeq(secondary, LAMBDA s : s.index = img.index)
         IN  IF matches = <<>> THEN <<img>> \o _join_outer(Tail(primary), secondary)
             ELSE <<img @@ [s2cloudless |-> Head(matches)]>>
                      \o _join_outer(Tail(primary), secondary)

\* ee.Join.saveFirst('s2cloudless') on equal system:index: every primary
\* image that has a match, in primary order, with the first matching
\* secondary image saved as its property s2cloudless.
RECURSIVE _join(_, _)
_join(primary, secondary) ==
    IF primary = <<>> THEN <<>>
    ELSE LET img == Head(primary)
             matches == SelectSeq(secondary, LAMBDA s : s.index = img.index)
         IN  IF matches = <<>> THEN _join(Tail(primary), secondary)
             ELSE <<img @@ [s2cloudless |-> Head(matches)]>>
                      \o _join(Tail(primary), secondary)

(* ------------------------ S2CloudlessBuilder --------------------------- *)
has(img, name) == name \in DOMAIN img.bands

\* add_cloud_bands.wrapper
cloud_wrapper(img, cld_prb_thresh) ==
    LET cld_prb == img.s2cloudless.bands[probability]
        is_cloud == gt(cld_prb, cld_prb_thresh)
    IN  addBands(img, <<probability, clouds>>, <<cld_prb, is_cloud>>)

cloud_fails(img) ==
    \/ "s2cloudless" \notin DOMAIN img
    \/ probability \notin DOMAIN img.s2cloudless.bands

\* add_shadow_bands.wrapper; nir_drk_thresh is given in hundredths.
shadow_wrapper(img, nir_drk_thresh100, cld_prj_dist) ==
    LET not_water == neq(img.bands[SCL], WATER)
        dark == multiply(lt(img.bands[B8], (nir_drk_thresh100 * SR_BAND_SCALE) \div 100),
                         not_water)
        shadow_azimuth == 90 - img.MEAN_SOLAR_AZIMUTH_ANGLE
        cld_proj == distanceMask(img.bands[clouds], shadow_azimuth, cld_prj_dist * 10)
        shdw == multiply(cld_proj, dark)
    IN  addBands(img, <<dark_pixels, cloud_transform, shadows>>, <<dark, cld_proj, shdw>>)

shadow_fails(img) == ~ (has(img, SCL) /\ has(img, B8) /\ has(img, clouds))

\* Faulty variant: the radii of the two filters are exchanged
cld_shdw_band_swapped(img, buffer) ==
    LET is_cld_shdw == gt(add(img.bands[clouds], img.bands[shadows]), 0)
    IN  focalMax(focalMin(is_cld_shdw, (buffer * 2 * 10) \div 20), FOCAL_MIN_RADIUS * 10)

\* The cloudmask band add_cld_shdw_mask.wrapper computes; the radius of the
\* dilation is buffer*2/20 pixels.
cld_shdw_band(img, buffer) ==
    LET is_cld_shdw == gt(add(img.bands[clouds], img.bands[shadows]), 0)
    IN  focalMax(focalMin(is_cld_shdw, FOCAL_MIN_RADIUS * 10), (buffer * 2 * 10) \div 20)

\* add_cld_shdw_mask.wrapper
mask_wrapper(img, buffer) == addBands(img, <<cloudmask>>, <<cld_shdw_band(img, buffer)>>)

mask_fails(img) == ~ (has(img, clouds) /\ has(img, shadows))

\* apply_cld_shdw_mask.wrapper
apply_wrapper(img) ==
    LET not_cld_shdw == Not(img.bands[cloudmask])
        selected == {n \in DOMAIN img.bands : MatchesBStar(n)}
    IN  [img EXCEPT !.bands = [n \in selected |-> img.bands[n]],
                    !.mask = multiply(img.mask, not_cld_shdw)]

apply_fails(img) ==
    \/ ~ has(img, cloudmask)
    \/ \A n \in DOMAIN img.bands : ~ MatchesBStar(n)

(* ------------------------------ state ---------------------------------- *)
VARIABLES
    sr_sr,        \* the reflectance collection given to S2CloudCollection
    cld_prb,      \* the cloud-probability collection given to S2CloudCollection
    s2_cld_col,   \* the S2CloudCollection, once constructed
    _col,         \* S2CloudlessBuilder._col (the product property)
    col,          \* S2CloudlessBuilder.col; <<>> while the attribute is not set
    _builder,     \* S2CloudlessDirector._builder
    supplied,     \* the arguments of the call of S2CloudlessDirector.build
    calls,        \* the stage wrappers mapped over the collection so far
    result,       \* what S2CloudlessBuilder.build returned
    err           \* the exception that ended the run, "none" if none

vars == <<sr_sr, cld_prb, s2_cld_col, _col, col, _builder, supplied, calls, result, err>>

(* ------------------------------ inputs --------------------------------- *)
Thresholds == {60, 85}
NirThresholds100 == {15}
Distances == {2}
Buffers == {0, 20}
Azimuths == {90, 270}
CloudFilters == {15, 60}

\* <<B8, SCL>> of a pixel: dark land, dark water, land at the dark threshold
ReflValues == {<<1000, 4>>, <<1000, 6>>, <<1500, 4>>}

Args(t, n, d, b) ==
    [cld_prb_thresh |-> t, nir_drk_thresh100 |-> n, cld_prj_dist |-> d, buffer |-> b]

DirectorArgs ==
    {Args(60, 15, 2, 100), Args(85, 10, 1, 50), Args(150, 15, 2, 100),
     Args(60, 150, 2, 100), Args(60, 15, 0, 100), Args(60, 15, 2, 0 - 10)}

\* The valid ranges of the configuration values.
Valid(a) ==
    /\ a.cld_prb_thresh >= 0 /\ a.cld_prb_thresh <= 100
    /\ a.nir_drk_thresh100 >= 0 /\ a.nir_drk_thresh100 <= 100
    /\ a.cld_prj_dist > 0
    /\ a.buffer >= 0

SRImage(i, refl, azimuth, cloudy) ==
    [index |-> i,
     bands |-> (B8 :> [p \in Pixels |-> refl[p][1]]) @@ (SCL :> [p \in Pixels |-> refl[p][2]]),
     mask |-> [p \in Pixels |-> 1],
     MEAN_SOLAR_AZIMUTH_ANGLE |-> azimuth,
     CLOUDY_PIXEL_PERCENTAGE |-> cloudy]

PrbImage(i, prob) == [index |-> i, bands |-> (probability :> prob)]

\* The catalogue scenes of the collection-level runs, one per index.
CatalogueSR(i) ==
    SRImage(i,
            [p \in Pixels |-> IF p = i % Width THEN <<1000, 6>>
                              ELSE IF (p + i) % 2 = 0 THEN <<1000, 4>> ELSE <<2000, 4>>],
            IF i % 2 = 0 THEN 90 ELSE 270,
            10 * i)

CataloguePrb(i) ==
    PrbImage(i, [p \in Pixels |-> IF i % 2 = 1 THEN 0 ELSE IF p < Width - 1 THEN 90 ELSE 85])

\* A collection is in acquisition order.
Collection(indices, image) ==
    [k \in 1 .. Cardinality(indices) |->
        image[CHOOSE i \in indices : Cardinality({j \in indices : j < i}) = k - 1]]

\* The single-image scenes <<probability row, surface row, solar azimuth>>
\* of the stage-level runs, over dark land: every cloud shape under either
\* sun, and every row of probabilities at and above the threshold 85; and
\* every surface row under a cloud at the west edge with the sun in the
\* west, and every row of dark land and dark water under a clear sky.
Uniform(v) == [p \in Pixels |-> v]
WestCloud == [p \in Pixels |-> IF p = 0 THEN 90 ELSE 0]

Scenes ==
    ([Pixels -> {0, 90}] \X {Uniform(<<1000, 4>>)} \X Azimuths)
    \cup ([Pixels -> {85, 90}] \X {Uniform(<<1000, 4>>)} \X {270})
    \cup ({WestCloud} \X [Pixels -> ReflValues] \X {270})
    \cup ({Uniform(0)} \X [Pixels -> {<<1000, 4>>, <<1000, 6>>}] \X {270})

(* ------------------------------ actions -------------------------------- *)
Running == err = "none" /\ result = <<>>

\* S2CloudCollection(cld_prb, sr_sr)
NewS2CloudCollection ==
    /\ Running
    /\ s2_cld_col = <<>>
    /\ s2_cld_col' = <<_join(sr_sr, cld_prb)>>
    /\ UNCHANGED <<sr_sr, cld_prb, _col, col, _builder, supplied, calls, result, err>>

\* builder.product = s2_cld_col
SetProduct ==
    /\ Running
    /\ s2_cld_col # <<>>
    /\ _col = <<>>
    /\ _col' = s2_cld_col
    /\ UNCHANGED <<sr_sr, cld_prb, s2_cld_col, col, _builder, supplied, calls, result, err>>

\* bldr.col = s2_cld_col
SetCol ==
    /\ Running
    /\ s2_cld_col # <<>>
    /\ col = <<>>
    /\ col' = s2_cld_col
    /\ UNCHANGED <<sr_sr, cld_prb, s2_cld_col, _col, _builder, supplied, calls, result, err>>

\* self.col = self.col.map(wrapper) of a stage method, called directly on
\* a builder that was not handed to a director: failed tells whether the
\* wrapper fails on an image of the collection, mapped is the collection of
\* the wrapper's results.
Stage(name, args, failed, mapped) ==
    /\ Running
    /\ _builder = <<>>
    /\ Len(calls) < MaxCalls
    /\ IF col = <<>>
       THEN err' = "AttributeError" /\ UNCHANGED <<col, calls>>
       ELSE IF failed
       THEN err' = "EEException" /\ UNCHANGED <<col, calls>>
       ELSE /\ col' = <<mapped>>
            /\ calls' = Append(calls, [stage |-> name, args |-> args])
            /\ err' = err
    /\ UNCHANGED <<sr_sr, cld_prb, s2_cld_col, _col, _builder, supplied, result>>

add_cloud_bands ==
    \E t \in Thresholds :
        Stage("add_cloud_bands", <<t>>,
              \E k \in 1 .. Len(col[1]) : cloud_fails(col[1][k]),
              [k \in 1 .. Len(col[1]) |-> cloud_wrapper(col[1][k], t)])

add_shadow_bands ==
    \E n \in NirThresholds100, d \in Distances :
        Stage("add_shadow_bands", <<n, d>>,
              \E k \in 1 .. Len(col[1]) : shadow_fails(col[1][k]),
              [k \in 1 .. Len(col[1]) |-> shadow_wrapper(col[1][k], n, d)])

add_cld_shdw_mask ==
    \E b \in Buffers :
        Stage("add_cld_shdw_mask", <<b>>,
              \E k \in 1 .. Len(col[1]) : mask_fails(col[1][k]),
              [k \in 1 .. Len(col[1]) |-> mask_wrapper(col[1][k], b)])

apply_cld_shdw_mask ==
    Stage("apply_cld_shdw_mask", <<>>,
          \E k \in 1 .. Len(col[1]) : apply_fails(col[1][k]),
          [k \in 1 .. Len(col[1]) |-> apply_wrapper(col[1][k])])

\* S2CloudlessBuilder.build
build ==
    /\ Running
    /\ IF col = <<>>
       THEN err' = "AttributeError" /\ UNCHANGED result
       ELSE result' = <<col[1]>> /\ err' = err
    /\ UNCHANGED <<sr_sr, cld_prb, s2_cld_col, _col, col, _builder, supplied, calls>>

\* dctr.builder = bldr
SetBuilder ==
    /\ Running
    /\ calls = <<>>
    /\ _builder = <<>>
    /\ _builder' = <<"bldr">>
    /\ UNCHANGED <<sr_sr, cld_prb, s2_cld_col, _col, col, supplied, calls, result, err>>

\* S2CloudlessDirector.build, called before any stage was called directly:
\* the first call of the chain passes the keyword cloud_prob_thresh, which
\* add_cloud_bands does not have.
DirectorBuild ==
    \E a \in DirectorArgs :
        /\ Running
        /\ calls = <<>>
        /\ supplied' = <<a>>
        /\ err' = IF _builder = <<>> THEN "AttributeError" ELSE "TypeError"
        /\ UNCHANGED <<sr_sr, cld_prb, s2_cld_col, _col, col, _builder, calls, result>>

\* build_s2_cloudless, on objects it constructs itself
build_s2_cloudless ==
    \E cloud_filter \in CloudFilters, a \in DirectorArgs :
        /\ Running
        /\ s2_cld_col = <<>> /\ _col = <<>> /\ col = <<>> /\ _builder = <<>>
        /\ calls = <<>> /\ supplied = <<>>
        /\ LET s2_sr == SelectSeq(sr_sr, LAMBDA img : img.CLOUDY_PIXEL_PERCENTAGE < cloud_filter)
           IN  /\ sr_sr' = s2_sr
               /\ s2_cld_col' = <<_join(s2_sr, cld_prb)>>
               /\ col' = <<_join(s2_sr, cld_prb)>>
        /\ _builder' = <<"bldr">>
        /\ supplied' = <<a>>
        /\ err' = "TypeError"
        /\ UNCHANGED <<cld_prb, _col, calls, result>>

(* --------------------------- specifications ---------------------------- *)
Init ==
    /\ \E is \in SUBSET Indices : sr_sr = Collection(is, [i \in Indices |-> CatalogueSR(i)])
    /\ \E is \in SUBSET Indices : cld_prb = Collection(is, [i \in Indices |-> CataloguePrb(i)])
    /\ s2_cld_col = <<>>
    /\ _col = <<>>
    /\ col = <<>>
    /\ _builder = <<>>
    /\ supplied = <<>>
    /\ calls = <<>>
    /\ result = <<>>
    /\ err = "none"

Next ==
    \/ NewS2CloudCollection
    \/ SetProduct
    \/ SetCol
    \/ add_cloud_bands
    \/ add_shadow_bands
    \/ add_cld_shdw_mask
    \/ apply_cld_shdw_mask
    \/ build
    \/ SetBuilder
    \/ DirectorBuild
    \/ build_s2_cloudless

Spec == Init /\ [][Next]_vars

\* One image, joined and assigned to the builder's col, under every scene.
InitStages ==
    /\ \E scene \in Scenes :
          /\ sr_sr = <<SRImage(1, scene[2], scene[3], 10)>>
          /\ cld_prb = <<PrbImage(1, scene[1])>>
    /\ s2_cld_col = <<_join(sr_sr, cld_prb)>>
    /\ _col = <<>>
    /\ col = s2_cld_col
    /\ _builder = <<>>
    /\ supplied = <<>>
    /\ calls = <<>>
    /\ result = <<>>
    /\ err = "none"

NextStages ==
    \/ add_cloud_bands
    \/ add_shadow_bands
    \/ add_cld_shdw_mask
    \/ apply_cld_shdw_mask

SpecStages == InitStages /\ [][NextStages]_vars

(* ------------------------------ claims --------------------------------- *)
Stages == <<"add_cloud_bands", "add_shadow_bands", "add_cld_shdw_mask", "apply_cld_shdw_mask">>

CallStages == [k \in 1 .. Len(calls) |-> calls[k].stage]

\* The arguments of the first call of a stage
FirstArgs(stage) ==
    calls[CHOOSE k \in 1 .. Len(calls) :
              /\ calls[k].stage = stage
              /\ \A j \in 1 .. (k - 1) : calls[j].stage # stage].args

Applied == "apply_cld_shdw_mask" \in {calls[k].stage : k \in 1 .. Len(calls)}

IndexSet(c) == {c[k].index : k \in 1 .. Len(c)}

DirectorRan == supplied # <<>> /\ _builder # <<>> /\ col # <<>>

\* C1: once S2CloudlessDirector.build has been called with valid arguments
\* on a builder that holds a collection, the four stages have been applied to it, each exactly
\* once, in the order add_cloud_bands, add_shadow_bands, add_cld_shdw_mask,
\* apply_cld_shdw_mask, and no error was raised.
C1_PipelineRunsStagesInOrder ==
    (DirectorRan /\ Valid(supplied[1])) => (err = "none" /\ CallStages = Stages)

OnlyReflectance(c) ==
    \A k \in 1 .. Len(c) :
        /\ DOMAIN c[k].bands \cap DerivedBands = {}
        /\ \A n \in DOMAIN c[k].bands : MatchesBStar(n)

\* C4: when apply_cld_shdw_mask was the last stage applied, no image of the
\* builder's collection (nor of the collection build returned) has a band
\* probability, clouds, dark_pixels, cloud_transform, shadows or cloudmask:
\* every band is a reflectance band B*.
C4_BandIsolation ==
    (calls # <<>> /\ calls[Len(calls)].stage = "apply_cld_shdw_mask") =>
        /\ OnlyReflectance(col[1])
        /\ result # <<>> => OnlyReflectance(result[1])

\* The four stages have run over a collection of two images and build returned
C4_Witness ==
    /\ CallStages = Stages
    /\ Len(col[1]) >= 2
    /\ result # <<>>
    /\ \A k \in 1 .. Len(col[1]) : DOMAIN col[1][k].bands = {B8}
    /\ \E k \in 1 .. Len(s2_cld_col[1]) : SCL \in DOMAIN s2_cld_col[1][k].bands

\* C7: a call of S2CloudlessDirector.build on a builder that holds a
\* collection, with a configuration value outside its valid
\* range ends with InvalidParameter, and no stage was applied.
C7_InvalidParameterFailsFast ==
    (DirectorRan /\ ~ Valid(supplied[1])) =>
        (err = "InvalidParameter" /\ calls = <<>>)

\* C9: once S2CloudlessDirector.build has been called with valid arguments
\* on a builder that holds a collection, add_cloud_bands has run with the supplied
\* cld_prb_thresh, add_shadow_bands with the supplied nir_drk_thresh and
\* cld_prj_dist, and add_cld_shdw_mask with the supplied buffer.
C9_SuppliedParametersUsed ==
    (DirectorRan /\ Valid(supplied[1])) =>
        LET a == supplied[1] IN
        /\ [stage |-> "add_cloud_bands", args |-> <<a.cld_prb_thresh>>]
               \in {calls[k] : k \in 1 .. Len(calls)}
        /\ [stage |-> "add_shadow_bands", args |-> <<a.nir_drk_thresh100, a.cld_prj_dist>>]
               \in {calls[k] : k \in 1 .. Len(calls)}
        /\ [stage |-> "add_cld_shdw_mask", args |-> <<a.buffer>>]
               \in {calls[k] : k \in 1 .. Len(calls)}

\* C10: on a builder whose collection was assigned through the product
\* setter only, every stage call and build succeed, and build returns the
\* product.
C10_ProductIsTheCollection ==
    (_col # <<>> /\ col = <<>> /\ supplied = <<>>) =>
        /\ err = "none"
        /\ result # <<>> => result = _col

Flagged(band) == {p \in Pixels : band[p] = 1}

\* C3: while no mask has been applied, the clouds band of every image is 1
\* at the pixels whose companion probability is strictly greater than the
\* threshold add_cloud_bands was first called with, and 0 at every other
\* pixel, those with a probability equal to the threshold included.
C3_CloudsStrictlyAboveThreshold ==
    (col # <<>> /\ ~ Applied) =>
        \A k \in 1 .. Len(col[1]) :
            LET img == col[1][k] IN
            has(img, clouds) =>
                \A p \in Pixels :
                    img.bands[clouds][p] =
                        IF img.s2cloudless.bands[probability][p] > FirstArgs("add_cloud_bands")[1]
                        THEN 1 ELSE 0

\* add_cloud_bands(85) over probabilities among which are 85 and 90
C3_Witness ==
    /\ calls = <<[stage |-> "add_cloud_bands", args |-> <<85>>]>>
    /\ \E p, q \in Pixels :
          /\ col[1][1].s2cloudless.bands[probability][p] = 85
          /\ col[1][1].bands[clouds][p] = 0
          /\ col[1][1].s2cloudless.bands[probability][q] = 90
          /\ col[1][1].bands[clouds][q] = 1

\* C5: for every image that has its clouds and shadows bands, every pixel
\* the cloudmask of a buffer flags is flagged by the cloudmask of every
\* larger buffer (buffers 0 <= 5 <= 10 <= 20 <= 30), and the cloudmask band
\* add_cld_shdw_mask added, for the buffer b it was first called with, lies
\* between the cloudmasks of the buffers below b and those of the buffers
\* above b.
C5_BufferMonotone ==
    (col # <<>>) =>
        \A k \in 1 .. Len(col[1]) :
            LET img == col[1][k]
                f0 == Flagged(cld_shdw_band(img, 0))
                f5 == Flagged(cld_shdw_band(img, 5))
                f10 == Flagged(cld_shdw_band(img, 10))
                f20 == Flagged(cld_shdw_band(img, 20))
                f30 == Flagged(cld_shdw_band(img, 30))
                b == FirstArgs("add_cld_shdw_mask")[1]
                mask == Flagged(img.bands[cloudmask])
            IN  (has(img, clouds) /\ has(img, shadows)) =>
                    /\ f0 \subseteq f5 /\ f5 \subseteq f10
                    /\ f10 \subseteq f20 /\ f20 \subseteq f30
                    /\ has(img, cloudmask) =>
                          /\ b <= 0 => mask \subseteq f0
                          /\ b <= 5 => mask \subseteq f5
                          /\ b <= 10 => mask \subseteq f10
                          /\ b <= 20 => mask \subseteq f20
                          /\ b <= 30 => mask \subseteq f30
                          /\ b >= 0 => f0 \subseteq mask
                          /\ b >= 5 => f5 \subseteq mask
                          /\ b >= 10 => f10 \subseteq mask
                          /\ b >= 20 => f20 \subseteq mask
                          /\ b >= 30 => f30 \subseteq mask

\* add_cld_shdw_mask(0) has flagged some pixels but not all, and the larger
\* buffers flag strictly more
C5_Witness ==
    /\ CallStages = <<"add_cloud_bands", "add_shadow_bands", "add_cld_shdw_mask">>
    /\ calls[3].args = <<0>>
    /\ Flagged(col[1][1].bands[cloudmask]) # {}
    /\ Flagged(col[1][1].bands[cloudmask]) # Flagged(cld_shdw_band(col[1][1], 10))
    /\ Flagged(cld_shdw_band(col[1][1], 10)) # Flagged(cld_shdw_band(col[1][1], 20))

ZeroBand(band) == \A p \in Pixels : band[p] = 0

\* C6: for an image whose companion probability band is zero everywhere,
\* the clouds, shadows and cloudmask bands are zero everywhere and no pixel
\* is invalid; once the mask has been applied the bands of the input image
\* that are left are its reflectance bands B*, with their input values, and
\* right after apply_cld_shdw_mask the image has no other band.
C6_NoCloudInputUnchanged ==
    (col # <<>>) =>
        \A k \in 1 .. Len(col[1]) :
            LET img == col[1][k]
                input == sr_sr[CHOOSE j \in 1 .. Len(sr_sr) : sr_sr[j].index = img.index]
                kept == {n \in DOMAIN input.bands : MatchesBStar(n)}
            IN  ZeroBand(img.s2cloudless.bands[probability]) =>
                    /\ \A n \in {clouds, shadows, cloudmask} :
                          has(img, n) => ZeroBand(img.bands[n])
                    /\ \A p \in Pixels : img.mask[p] = 1
                    /\ Applied =>
                          /\ DOMAIN img.bands \cap DOMAIN input.bands = kept
                          /\ \A n \in kept : img.bands[n] = input.bands[n]
                    /\ (calls # <<>> /\ calls[Len(calls)].stage = "apply_cld_shdw_mask") =>
                          DOMAIN img.bands = kept

\* The four stages have run over a surface with dark land and water under a
\* probability band that is zero everywhere
C6_Witness ==
    /\ CallStages = Stages
    /\ ZeroBand(cld_prb[1].bands[probability])
    /\ \E p, q \in Pixels :
          /\ sr_sr[1].bands[B8][p] = 1000 /\ sr_sr[1].bands[SCL][p] = 4
          /\ sr_sr[1].bands[SCL][q] = WATER
    /\ DOMAIN col[1][1].bands = {B8}

\* C8: for every image that has its shadows band, at every pixel shadows is
\* 1 exactly when cloud_transform is 1 and dark_pixels is 1, and dark_pixels
\* is 1 exactly when B8 is below nir_drk_thresh * 10000, for the threshold
\* add_shadow_bands was first called with, and SCL is not 6.
C8_ShadowsAreDarkProjected ==
    (col # <<>>) =>
        \A k \in 1 .. Len(col[1]) :
            LET img == col[1][k] IN
            has(img, shadows) =>
                \A p \in Pixels :
                    /\ img.bands[shadows][p] \in {0, 1}
                    /\ img.bands[dark_pixels][p] \in {0, 1}
                    /\ img.bands[shadows][p] = 1 <=>
                          (img.bands[cloud_transform][p] = 1 /\ img.bands[dark_pixels][p] = 1)
                    /\ img.bands[dark_pixels][p] = 1 <=>
                          /\ 100 * img.bands[B8][p] <
                                 FirstArgs("add_shadow_bands")[1] * SR_BAND_SCALE
                          /\ img.bands[SCL][p] # 6

\* add_shadow_bands has flagged a shadow, and left out a dark water pixel
\* and a pixel at the dark threshold, both in the projected range
C8_Witness ==
    /\ col # <<>> /\ Len(col[1]) = 1 /\ has(col[1][1], shadows)
    /\ \E p, q, r \in Pixels :
          /\ col[1][1].bands[shadows][p] = 1
          /\ col[1][1].bands[cloud_transform][q] = 1
          /\ col[1][1].bands[B8][q] = 1000 /\ col[1][1].bands[SCL][q] = 6
          /\ col[1][1].bands[shadows][q] = 0
          /\ col[1][1].bands[cloud_transform][r] = 1
          /\ col[1][1].bands[B8][r] = 1500
          /\ col[1][1].bands[shadows][r] = 0

====
